---- MODULE Spec2Model ----
(***************************************************************************)
(* A model of qkmeans.py: the swap-test distance estimator (distance,      *)
(* batch_separate, batch_distance, batch_collect, batch_distances), the    *)
(* seeder qkmeans_plusplus and the QuantumKMeans estimator (fit, predict,  *)
(* set_params).                                                            *)
(*                                                                         *)
(* Conventions.  A numpy array or a DataFrame's values are a sequence of   *)
(* rows, a row a sequence of integers.  Python positions are 0-based; the  *)
(* sequence index of position p is p+1.  A distance is kept as the         *)
(* numerator of the fraction the code returns: the value v stands for      *)
(* v/1024 (Shots).  The quantum backend is an opaque collaborator: a       *)
(* backend is a function from the pair of encoded vectors of a swap-test   *)
(* circuit to the number of shots that measured 1 on the control qubit.    *)
(* A call returns a value, returns None or raises: Ok(v), ReturnsNone,     *)
(* Raise(e).                                                               *)
(***************************************************************************)
EXTENDS Integers, Sequences, FiniteSets, TLC

\* ---------------------------------------------------------------- bounds
MaxPoints == 4
MaxCenters == 3
MaxExperiments == 5
\* fit calls in one session, and the largest max_iter tried
MaxFits == 2
MaxFeatures == 5
MaxIter == 2
\* the values random_sample() is drawn from: r/Draws for r below Draws
Draws == 8
\* the resolution of the fixed-point numbers that stand for floats
Unit == 12

\* execute(..., shots=1024)
Shots == 1024

VARIABLES bpc, bX, bClusters, bMax, bMapType, bBackend,
          batches, jobs, distance_list, distances, direct

batchVars == <<bpc, bX, bClusters, bMax, bMapType, bBackend,
               batches, jobs, distance_list, distances, direct>>

\* the estimator's parameters (QuantumKMeans.__init__, set_params)
VARIABLES n_clusters, init, tol, max_iter, map_type, initial_center,
          max_experiments
\* the estimator's fitted attributes
VARIABLES cluster_centers_, labels_, n_iter_
\* the call in progress: where it is, the steps it has taken, and fit's
\* local variables
VARIABLES pc, steps, X_fit, batch, iteration, finished
\* qkmeans_plusplus's local variables
VARIABLES centers, indices, closest_distances, current_pot, seed_c
\* what the caller saw: the fit calls made so far, the last call, what it
\* returned or raised
VARIABLES fits, last, result, exc
\* the local distances of the last Assigning step of fit or of predict
VARIABLES matrix
\* the caller's dataset and batch option, the same in every call of a
\* session, and whether the session's backend has jobs that raise
VARIABLES dataset, use_batch, flaky

paramVars == <<n_clusters, init, tol, max_iter, map_type, initial_center,
               max_experiments>>
fittedVars == <<cluster_centers_, labels_, n_iter_>>
fitVars == <<X_fit, batch, iteration, finished>>
seedVars == <<centers, indices, closest_distances, current_pot, seed_c>>
callVars == <<fits, last, result, exc>>
sessionVars == <<dataset, use_batch, flaky>>
estVars == <<paramVars, sessionVars, fittedVars, pc, steps, fitVars, seedVars,
            matrix,
            callVars>>

vars == <<batchVars, estVars>>

\* ------------------------------------------------------- results of calls
Ok(v) == [ok |-> TRUE, err |-> "", val |-> v]
Raise(e) == [ok |-> FALSE, err |-> e, val |-> <<>>]

\* a function that falls off its last branch returns None
ReturnsNone == [ok |-> TRUE, err |-> "None", val |-> <<>>]
IsNone(r) == r.ok /\ r.err = "None"
IsValue(r) == r.ok /\ r.err = ""

\* a call as the caller made it
Call(name, sample_weight, b) ==
    [name |-> name, sample_weight |-> sample_weight, batch |-> b]

\* a call that has not been made yet
Pending == [ok |-> FALSE, err |-> "pending", val |-> <<>>]

MapTypes == {"angle", "probability"}

\* ------------------------------------------------------------ sequences
RECURSIVE Flatten(_)
Flatten(rows) ==
    IF Len(rows) = 0 THEN <<>> ELSE Head(rows) \o Flatten(Tail(rows))

Zeros(n) == [i \in 1..n |-> 0]

\* ------------------------------------------------- measurement histograms
\* result.get_counts() of one circuit: only the control qubit is measured
\* (into cr[0], the last character of the key), so a histogram has at most
\* the two keys 0..00 and 0..01, and only outcomes that occurred are keys.
get_counts(ones, nbits) ==
    LET k0 == Zeros(nbits - 1) \o <<0>>
        k1 == Zeros(nbits - 1) \o <<1>>
        keys == (IF Shots - ones > 0 THEN {k0} ELSE {})
                  \cup (IF ones > 0 THEN {k1} ELSE {})
    IN [key \in keys |-> IF key = k1 THEN ones ELSE Shots - ones]

\* the bitstring the decoders look up: zeros followed by a trailing 1
Divergent(nbits) == Zeros(nbits - 1) \o <<1>>

\* batch_data['001']/1024.0 if len(batch_data)!=1 else 0.0
decode_angle(batch_data) ==
    IF Cardinality(DOMAIN batch_data) # 1
    THEN batch_data[Divergent(3)]
    ELSE 0

\* contained = key in batch_data; data[i][key]/1024 if contained else 0.0
decode_probability(batch_data, nbits) ==
    IF Divergent(nbits) \in DOMAIN batch_data
    THEN batch_data[Divergent(nbits)]
    ELSE 0

\* int(np.log2(f)), +1 when f is no power of two: the qubits per operand
RECURSIVE Qubits(_)
Qubits(f) == IF f <= 1 THEN 0 ELSE 1 + Qubits((f + 1) \div 2)

\* ------------------------------------------------------------- distance
\* distance(x, y, backend, map_type, norm_relevance): one circuit, one job.
distance(x, y, backend, mtype, norm_relevance) ==
    IF mtype = "angle"
    THEN IF Len(x) = 2 \/ (Len(x) = 3 /\ norm_relevance)
         THEN LET data == get_counts(backend[<<x, y>>], 3)
              IN IF Cardinality(DOMAIN data) = 1
                 THEN Ok(0)
                 ELSE Ok(data[Divergent(3)])
         ELSE ReturnsNone
    ELSE IF mtype = "probability"
         \* qubits = np.ceil(...) is a float, and np.zeros(2**qubits) refuses
         \* a float size
         THEN Raise("TypeError")
         ELSE ReturnsNone

\* ------------------------------------------------------- batch_separate
\* an off-by-one in the split positions
split_points_shifted(n, max_exp) ==
    IF n % max_exp = 0
    THEN [i \in 1..(n \div max_exp - 1) |-> i * max_exp + 1]
    ELSE [i \in 1..(n \div max_exp) |-> i * max_exp + 1]

\* the split positions handed to np.split
split_points(n, max_exp) ==
    IF n % max_exp = 0
    THEN [i \in 1..(n \div max_exp - 1) |-> i * max_exp]
    ELSE [i \in 1..(n \div max_exp) |-> i * max_exp]

\* np.split(X, idx): the rows before idx[0], between idx[i] and idx[i+1],
\* and from idx[-1] on.  (Chunks of unequal length make np.asarray build an
\* array of row-block objects, as numpy did when this code was written.)
np_split(X, idx) ==
    [c \in 1..(Len(idx) + 1) |->
        SubSeq(X, (IF c = 1 THEN 0 ELSE idx[c - 1]) + 1,
                  IF c = Len(idx) + 1 THEN Len(X) ELSE idx[c])]

\* np.tile in place of np.repeat: the whole sequence k times over
np_tile(a, k) == [p \in 1..(Len(a) * k) |-> a[((p - 1) % Len(a)) + 1]]

\* np.repeat(a, k, axis=0): every element k times in a row
np_repeat(a, k) == [p \in 1..(Len(a) * k) |-> a[((p - 1) \div k) + 1]]

\* batches_clusters[i::k] = clusters[i] for i in range(k)
cycle_clusters(clusters, rows) ==
    [p \in 1..rows |-> clusters[((p - 1) % Len(clusters)) + 1]]

\* the number of rows of batches_clusters
n_batches(n, k, max_exp) ==
    IF n % max_exp = 0
    THEN (n \div max_exp) * k
    ELSE (n \div max_exp + 1) * k

\* a shape with as many points as centers passes the test
more_points_or_as_many(n, k) == n >= k

\* if X.shape[0] > clusters.shape[0], line 164
more_points(n, k) == n > k

\* clusters is the 1-D np.empty(0) exactly when it has no row (a 2-D array
\* of centers always has one); clusters.shape[1] then raises IndexError.
batch_separate(X, clusters, max_exp) ==
    IF more_points(Len(X), Len(clusters))
    THEN IF Len(clusters) = 0
         THEN Raise("IndexError")
         ELSE LET chunks == np_split(X, split_points(Len(X), max_exp))
                  batches_clusters ==
                      cycle_clusters(clusters,
                          n_batches(Len(X), Len(clusters), max_exp))
                  batches_X == np_repeat(chunks, Len(clusters))
              IN IF Len(batches_X) < Len(batches_clusters)
                 THEN Raise("IndexError")
                 ELSE Ok([i \in 1..Len(batches_clusters) |->
                            <<batches_X[i], batches_clusters[i]>>])
    ELSE Raise("NotImplementedError")

\* ------------------------------------------------------- batch_distance
\* the circuits of one batch, in submission order: one per point of B[0],
\* each against the batch's center B[1]
batch_circuits(B) == [p \in 1..Len(B[1]) |-> <<B[1][p], B[2]>>]

\* job = execute(qcs, backend, shots=1024); data = job.result().get_counts()
execute(qcs, backend, nbits) ==
    [p \in 1..Len(qcs) |-> get_counts(backend[qcs[p]], nbits)]

\* batch_distance(B, backend, map_type) for a batch whose rows have 2
\* features or more.  Rows of 3 features have no probability branch.
batch_distance(B, backend, mtype) ==
    LET f == Len(B[2])
        qcs == batch_circuits(B)
    IN IF mtype = "angle"
       THEN LET data == execute(qcs, backend, 3)
            IN Ok([p \in 1..Len(data) |-> decode_angle(data[p])])
       ELSE IF mtype = "probability" /\ f # 3
            THEN LET nbits == 2 * Qubits(f) + 1
                     data == execute(qcs, backend, nbits)
                 IN Ok([p \in 1..Len(data) |->
                          decode_probability(data[p], nbits)])
            ELSE ReturnsNone

\* -------------------------------------------------------- batch_collect
\* a[i] for a Python index i into an array of n elements
PyIndexOk(i, n) == i < n /\ i >= -n
PyIndex(i, n) == IF i < 0 THEN i + n ELSE i

Rectangular(rows) == \A i, j \in 1..Len(rows) : Len(rows[i]) = Len(rows[j])

\* the position of batch_d copied to final_batch_d[i]
collect_source(i, n_rows, n_centers) ==
    IF i < n_rows \div n_centers
    THEN n_centers * i
    ELSE n_centers * i - n_rows + 1

\* np.asarray(list of the batches' results): a 2-D array when every result
\* is a list and all have one length, else a 1-D array of objects
np_asarray(results) ==
    LET rows == [b \in 1..Len(results) |-> results[b].val]
    IN [ndim |-> IF (\A b \in 1..Len(results) : IsValue(results[b]))
                      /\ Rectangular(rows)
                 THEN 2 ELSE 1,
        rows |-> rows]

\* batch_collect(batch_d, desired_shape)
batch_collect(batch_arr, desired_shape) ==
    LET batch_d == batch_arr.rows
        R == Len(batch_d)
        k == desired_shape[1]
        n == desired_shape[2]
        src(i) == collect_source(i, R, k)
    IN IF \E i \in 0..(R - 1) : ~PyIndexOk(src(i), R)
       THEN Raise("IndexError")
       ELSE LET final_batch_d ==
                    [i \in 1..R |-> batch_d[PyIndex(src(i - 1), R) + 1]]
                \* an array of lists of unequal length is a 1-D array of
                \* list objects
                elems == IF batch_arr.ndim = 2
                         THEN Flatten(final_batch_d)
                         ELSE final_batch_d
            IN IF Len(elems) # k * n
               THEN Raise("ValueError")
               ELSE Ok([j \in 1..k |-> SubSeq(elems, (j - 1) * n + 1, j * n)])

\* ------------------------------------------------------ batch_distances
\* [batch_distance(B, backend, map_type) for B in batches]
batch_results(bs, backend, mtype) ==
    [b \in 1..Len(bs) |-> batch_distance(bs[b], backend, mtype)]

\* batch_distances(X, cluster_centers, backend, map_type, verbose), with
\* backend.configuration().max_experiments as max_experiments
batch_distances(X, cluster_centers, backend, mtype, max_exp) ==
    LET sep == batch_separate(X, cluster_centers, max_exp)
    IN IF ~sep.ok
       THEN sep
       ELSE batch_collect(np_asarray(batch_results(sep.val, backend, mtype)),
                          <<Len(cluster_centers), Len(X)>>)

\* [[distance(point, centroid, backend) for point in X] for centroid in
\* centers]: the per-pair estimator as fit, predict and the seeder call it,
\* with distance's default map_type='angle' and norm_relevance=False
unbatched_distances(X, cluster_centers, backend) ==
    LET d(j, i) == distance(X[i], cluster_centers[j], backend, "angle", FALSE)
    IN IF Len(X) = 0 \/ Len(cluster_centers) = 0
       THEN Ok([j \in 1..Len(cluster_centers) |-> <<>>])
       ELSE IF IsNone(d(1, 1))
            THEN ReturnsNone
            ELSE Ok([j \in 1..Len(cluster_centers) |->
                       [i \in 1..Len(X) |-> d(j, i).val]])

\* ===================================================================
\* The batcher on its own: batch_distances taken step by step (separate,
\* one job per batch, collect), then the per-pair estimator on the same
\* backend.
\* ===================================================================

\* the rows of the module's usage example, continued by the same rule:
\* [1, 2], [1, 4], [1, 0], [10, 2], [10, 4], [10, 0], [19, 2], ...
ExampleRow(i) == <<1 + 9 * ((i - 1) \div 3), (2 * (((i - 1) % 3) + 1)) % 6>>
ExampleX(n) == [i \in 1..n |-> ExampleRow(i)]

Pairs(X, C) == {<<X[i], C[j]>> : i \in 1..Len(X), j \in 1..Len(C)}

RowIndex(X, x) == CHOOSE i \in 1..Len(X) : X[i] = x

\* The measurement outcomes tried: every pair a count of its own (so that
\* a misplaced entry shows), every shot 0, every shot 1, and a mix of the
\* three kinds.
BatchBackends(X, C) ==
    { [p \in Pairs(X, C) |-> 16 * RowIndex(C, p[2]) + RowIndex(X, p[1])],
      [p \in Pairs(X, C) |-> 0],
      [p \in Pairs(X, C) |-> Shots],
      [p \in Pairs(X, C) |->
          IF RowIndex(X, p[1]) % 3 = 0 THEN Shots
          ELSE IF RowIndex(X, p[1]) % 3 = 1 THEN 0
          ELSE 512 + RowIndex(C, p[2])] }

\* self.cluster_centers_ = np.empty(0); self.labels_ = np.empty(0)
EmptyArray == [kind |-> "ndarray", index |-> <<>>, rows |-> <<>>]
NoResult == [kind |-> "none", labels |-> <<>>]

\* QuantumKMeans.__init__ with its defaults (the init string apart), before
\* any call
Constructed ==
    /\ cluster_centers_ = EmptyArray
    /\ labels_ = <<>>
    /\ n_iter_ = 0
    /\ pc = "idle"
    /\ steps = 0
    /\ X_fit = <<>>
    /\ batch = TRUE
    /\ iteration = 0
    /\ finished = FALSE
    /\ centers = <<>>
    /\ indices = <<>>
    /\ closest_distances = <<>>
    /\ current_pot = 0
    /\ seed_c = 0
    /\ fits = 0
    /\ matrix = <<>>
    /\ last = Call("none", <<>>, TRUE)
    /\ result = NoResult
    /\ exc = ""

DefaultParams ==
    /\ n_clusters = 2
    /\ init = [kind |-> "qk-means++", centers |-> <<>>]
    /\ tol = <<1, 10000>>
    /\ max_iter = 300
    /\ map_type = "probability"
    /\ initial_center = "random"
    /\ max_experiments = 300
    /\ dataset = <<>>
    /\ use_batch = TRUE
    /\ flaky = FALSE

BatchInit ==
    /\ Constructed
    /\ DefaultParams
    /\ bpc = "start"
    /\ bX \in {ExampleX(n) : n \in 1..MaxPoints}
    /\ bClusters \in {ExampleX(k) : k \in 1..MaxCenters}
    /\ bMax \in 1..MaxExperiments
    /\ bMapType \in MapTypes
    /\ bBackend \in BatchBackends(bX, bClusters)
    /\ batches = <<>>
    /\ jobs = <<>>
    /\ distance_list = [ndim |-> 1, rows |-> <<>>]
    /\ distances = Pending
    /\ direct = Pending

\* batches = batch_separate(X.to_numpy(), cluster_centers, max_experiments)
Separate ==
    /\ bpc = "start"
    /\ LET sep == batch_separate(bX, bClusters, bMax)
       IN IF sep.ok
          THEN /\ batches' = sep.val
               /\ bpc' = "separated"
               /\ UNCHANGED distances
          ELSE /\ distances' = sep
               /\ bpc' = "raised"
               /\ UNCHANGED batches
    /\ UNCHANGED <<bX, bClusters, bMax, bMapType, bBackend, jobs,
                   distance_list, direct>>
    /\ UNCHANGED estVars

\* distance_list = np.asarray([batch_distance(B, ...) for B in batches]);
\* jobs records the circuits each execute() call was handed
Measure ==
    /\ bpc = "separated"
    /\ jobs' = [b \in 1..Len(batches) |-> batch_circuits(batches[b])]
    /\ distance_list' = np_asarray(batch_results(batches, bBackend, bMapType))
    /\ bpc' = "measured"
    /\ UNCHANGED <<bX, bClusters, bMax, bMapType, bBackend, batches,
                   distances, direct>>
    /\ UNCHANGED estVars

\* distances = batch_collect(distance_list, (n_centers, n_points))
Collect ==
    /\ bpc = "measured"
    /\ distances' = batch_collect(distance_list, <<Len(bClusters), Len(bX)>>)
    /\ bpc' = "collected"
    /\ UNCHANGED <<bX, bClusters, bMax, bMapType, bBackend, batches, jobs,
                   distance_list, direct>>
    /\ UNCHANGED estVars

\* the same pairs through the per-pair estimator
Unbatched ==
    /\ bpc \in {"collected", "raised"}
    /\ direct' = unbatched_distances(bX, bClusters, bBackend)
    /\ bpc' = "done"
    /\ UNCHANGED <<bX, bClusters, bMax, bMapType, bBackend, batches, jobs,
                   distance_list, distances>>
    /\ UNCHANGED estVars

BatchNext == Separate \/ Measure \/ Collect \/ Unbatched

BatchSpec == BatchInit /\ [][BatchNext]_vars

\* The same steps on rows of 2 to MaxFeatures features: the example's rows,
\* continued by further columns.
WideRow(i, f) ==
    [h \in 1..f |-> IF h <= 2 THEN ExampleRow(i)[h] ELSE i + h]
WideX(n, f) == [i \in 1..n |-> WideRow(i, f)]

WideInit ==
    /\ Constructed
    /\ DefaultParams
    /\ bpc = "start"
    /\ \E f \in 2..MaxFeatures :
          /\ bX \in {WideX(n, f) : n \in 2..3}
          /\ bClusters \in {WideX(k, f) : k \in 1..2}
    /\ bMax \in 1..2
    /\ bMapType \in MapTypes
    /\ bBackend \in BatchBackends(bX, bClusters)
    /\ batches = <<>>
    /\ jobs = <<>>
    /\ distance_list = [ndim |-> 1, rows |-> <<>>]
    /\ distances = Pending
    /\ direct = Pending

WideSpec == WideInit /\ [][BatchNext]_vars

\* ------------------------------------------------------------ claims
NChunks == (Len(bX) + bMax - 1) \div bMax
Min(a, b) == IF a < b THEN a ELSE b
Separated == bpc \in {"separated", "measured", "collected"}

\* the distance batch_distance decodes for one pair
PairDecoded(x, y) == batch_distance(<<<<x>>, y>>, bBackend, bMapType).val[1]

\* C1: for every dataset of n rows, k centers with n > k and every
\* max batch size m >= 1, batch_collect of the batches' distance lists is
\* a k x n matrix whose entry [j][i] is the distance decoded for (point i,
\* center j): the matrix the per-pair estimator gives for the same outcomes.
C1_RoundTrip ==
    /\ (bpc = "collected" /\ Len(bX) > Len(bClusters)) =>
          /\ IsValue(distances)
          /\ \A j \in 1..Len(bClusters) : \A i \in 1..Len(bX) :
                distances.val[j][i] = PairDecoded(bX[i], bClusters[j])
    /\ (bpc = "done" /\ Len(bX) > Len(bClusters)) =>
          /\ IsValue(distances)
          /\ IsValue(direct)
          /\ \A j \in 1..Len(bClusters) : \A i \in 1..Len(bX) :
                distances.val[j][i] = direct.val[j][i]

\* C2: no job holds more than max_experiments circuits: every batch is a
\* contiguous slice of at most max_experiments rows, only the last chunk
\* may be smaller, and the chunks cover the rows once, in order.
C2_JobSize ==
    Separated =>
        LET k == Len(bClusters)
            chunk(c) == batches[(c - 1) * k + 1][1]
        IN /\ \A b \in 1..Len(batches) :
                 /\ Len(batches[b][1]) >= 1
                 /\ Len(batches[b][1]) <= bMax
           /\ \A b \in 1..Len(jobs) : Len(jobs[b]) <= bMax
           /\ Len(batches) = NChunks * k
           /\ \A c \in 1..(NChunks - 1) : Len(chunk(c)) = bMax
           /\ Flatten([c \in 1..NChunks |-> chunk(c)]) = bX

C2_Witness ==
    /\ bpc = "measured"
    /\ Len(bX) % bMax # 0
    /\ NChunks >= 2
    /\ Len(jobs) = Len(batches)
    /\ Len(jobs[Len(jobs)]) < bMax

\* C3: batch_separate returns C*k batches, and the batch at position
\* c*k + j is (chunk c, center j): chunk index slower, center index faster.
C3_BatchOrder ==
    Separated =>
        LET k == Len(bClusters)
            n == Len(bX)
        IN /\ Len(batches) = NChunks * k
           /\ \A c \in 0..(NChunks - 1) : \A j \in 0..(k - 1) :
                 batches[c * k + j + 1] =
                     <<SubSeq(bX, c * bMax + 1, Min((c + 1) * bMax, n)),
                       bClusters[j + 1]>>

C3_Witness ==
    /\ bpc = "separated"
    /\ NChunks >= 2
    /\ Len(bClusters) >= 2
    /\ Len(batches) = NChunks * Len(bClusters)

\* C4: a histogram with a single outcome decodes to 0.0 whichever outcome
\* it is, in the per-pair estimator and in batch_distance under both
\* schemes.
SingleOutcome(qc) == bBackend[qc] \in {0, Shots}

C4_SingleOutcomeZero ==
    /\ (bpc = "measured" /\ distance_list.ndim = 2) =>
          \A b \in 1..Len(jobs) : \A p \in 1..Len(jobs[b]) :
              SingleOutcome(jobs[b][p]) => distance_list.rows[b][p] = 0
    /\ (bpc = "done" /\ IsValue(direct)) =>
          \A j \in 1..Len(bClusters) : \A i \in 1..Len(bX) :
              SingleOutcome(<<bX[i], bClusters[j]>>) => direct.val[j][i] = 0

\* ===================================================================
\* The estimator: QuantumKMeans
\* ===================================================================

\* --------------------------------------------------- fixed-point numbers
\* A float is kept as an integer count of 1/Unit; a quotient or a square
\* root is rounded toward zero.
Abs(x) == IF x < 0 THEN -x ELSE x
Sign(x) == IF x < 0 THEN -1 ELSE IF x > 0 THEN 1 ELSE 0

RECURSIVE SumSeq(_)
SumSeq(q) == IF Len(q) = 0 THEN 0 ELSE Head(q) + SumSeq(Tail(q))

Column(rows, j) == [i \in 1..Len(rows) |-> rows[i][j]]

\* Unit * num / sqrt(v) for v > 0, where the quotient is at most bound
RootQuotient(num, v, bound) ==
    Sign(num) *
        (CHOOSE r \in 0..(Unit * bound) :
            /\ r * r * v <= Unit * Unit * num * num
            /\ (r + 1) * (r + 1) * v > Unit * Unit * num * num)

\* sklearn.preprocessing.scale: every column to zero mean and unit
\* variance; a constant column becomes zeros
scale(points) ==
    LET n == Len(points)
        S(j) == SumSeq(Column(points, j))
        Q(j) == SumSeq([i \in 1..n |-> points[i][j] * points[i][j]])
        V(j) == n * Q(j) - S(j) * S(j)
    IN [i \in 1..n |-> [j \in 1..Len(points[i]) |->
           IF V(j) = 0 THEN 0
           ELSE RootQuotient(n * points[i][j] - S(j), V(j), n)]]

\* sklearn.preprocessing.normalize: every row to unit L2 norm; a zero row
\* stays zero
normalize(points) ==
    [i \in 1..Len(points) |->
        LET N == SumSeq([j \in 1..Len(points[i]) |->
                            points[i][j] * points[i][j]])
        IN [j \in 1..Len(points[i]) |->
               IF N = 0 THEN 0 ELSE RootQuotient(points[i][j], N, 1)]]

\* preprocess(points, map_type, norm_relevance=False)
preprocess(points, mtype) ==
    IF mtype = "angle" THEN scale(points) ELSE normalize(points)

\* ------------------------------------------------------------ DataFrames
\* pd.DataFrame(rows): a frame with the default index 0..n-1
DataFrame(rows) ==
    [kind |-> "DataFrame",
     index |-> [i \in 1..Len(rows) |-> i - 1],
     rows |-> rows]

RECURSIVE SortedSeq(_)
SortedSeq(S) ==
    IF S = {} THEN <<>>
    ELSE LET m == CHOOSE x \in S : \A y \in S : x <= y
         IN <<m>> \o SortedSeq(S \ {m})

\* X.groupby(labels).mean(): one row per label that occurs, indexed by the
\* label, in increasing order; the mean of the rows carrying it
groupby_mean(rows, labels) ==
    LET present == SortedSeq({labels[i] : i \in 1..Len(labels)})
        members(l) == {i \in 1..Len(rows) : labels[i] = l}
        mean(l) == [j \in 1..Len(rows[1]) |->
                      LET total == SumSeq([i \in 1..Len(rows) |->
                                     IF labels[i] = l THEN rows[i][j] ELSE 0])
                      IN Sign(total) * (Abs(total) \div Cardinality(members(l)))]
    IN [kind |-> "DataFrame",
        index |-> present,
        rows |-> [g \in 1..Len(present) |-> mean(present[g])]]

\* the last position holding the minimum
np_argmin_last(col) ==
    (CHOOSE j \in 1..Len(col) :
        /\ \A h \in 1..Len(col) : col[j] <= col[h]
        /\ \A h \in (j + 1)..Len(col) : col[h] > col[j]) - 1

\* np.argmin(distances[:,i]): the first position holding the minimum
np_argmin(col) ==
    (CHOOSE j \in 1..Len(col) :
        /\ \A h \in 1..Len(col) : col[j] <= col[h]
        /\ \A h \in 1..(j - 1) : col[h] > col[j]) - 1

\* [np.argmin(distances[:,i]) for i in range(distances.shape[1])]
nearest(dist) ==
    [i \in 1..Len(dist[1]) |-> np_argmin([j \in 1..Len(dist) |-> dist[j][i]])]

\* (new_centroids - old).sum(axis=0).sum(): the frames are aligned on their
\* index labels; a label only one of them has gives NaN, which sum() skips
diff_sum(new, old) ==
    LET row(df, l) == df.rows[CHOOSE g \in 1..Len(df.index) : df.index[g] = l]
        has(df, l) == \E g \in 1..Len(df.index) : df.index[g] = l
        shared == {l \in {new.index[g] : g \in 1..Len(new.index)} : has(old, l)}
    IN SumSeq([g \in 1..Len(new.index) |->
          IF new.index[g] \in shared
          THEN SumSeq([j \in 1..Len(new.rows[g]) |->
                   new.rows[g][j] - row(old, new.index[g])[j]])
          ELSE 0])

\* abs(s) < self.tol, for s in units of 1/Unit and tol = t[1]/t[2]
converged(s, t) == Abs(s) * t[2] < t[1] * Unit

loop_continues_late(fin, iter, maxit) == ~fin /\ iter <= maxit

\* while not finished and iteration < self.max_iter
loop_continues(fin, iter, maxit) == ~fin /\ iter < maxit

\* ------------------------------------------------------- the backend
\* The measurement outcomes tried for one distance matrix: a pair's job
\* measures 1 in none or in half of its shots.  Either every point has one
\* center it is nearest to, or all pairs measure the same.
OutcomeCounts == {0, 512}
Step == 256

Position(rows, x) == CHOOSE i \in 1..Len(rows) : rows[i] = x

Backends(rows, cs) ==
    { [p \in Pairs(rows, cs) |->
          IF Position(cs, p[2]) = q[Position(rows, p[1])] THEN 0 ELSE 512]
        : q \in [1..Len(rows) -> 1..Len(cs)] }
    \cup
    { [p \in Pairs(rows, cs) |-> v] : v \in OutcomeCounts }

\* against the second center of the seeder's 'far' pass also: every point
\* measures Step more than the point before it
FarBackends(rows, cs) ==
    Backends(rows, cs)
      \cup { [p \in Pairs(rows, cs) |-> Step * (Position(rows, p[1]) - 1)] }

\* -------------------------------------------------------------- sessions
\* the datasets handed to fit and predict
Datasets == { <<<<1, 2>>, <<1, 4>>, <<10, 2>>>>,
              <<<<1, 2>>, <<1, 4>>, <<10, 2>>, <<10, 4>>>> }

\* an explicit array of 2 initial centers
InitArray == <<<<Unit, 0>>, <<0, Unit>>>>

Inits == { [kind |-> "qk-means++", centers |-> <<>>],
           [kind |-> "random", centers |-> <<>>],
           [kind |-> "array", centers |-> InitArray] }

\* tol: the default 0.0001, and 1.0
Tols == { <<1, 10000>>, <<1, 1>> }

\* sample_weight: None (the empty sequence) or one weight per feature
Weights == { <<>>, <<2, 1>> }

\* The sessions tried: the 4-point dataset goes with batches of a small job
\* size, the 3-point dataset with a large one; the seeder runs on the 3-point
\* dataset, and with 3 clusters only through batches; 'far' goes with the
\* seeder; an explicit array gives 2 centers; tol = 1.0 goes with 'random';
\* a backend with jobs that raise goes with the 3-point dataset, 2 clusters,
\* the default tol, the angle scheme, init='random' and batch=True.
Tried ==
    /\ Len(dataset) = 4 => use_batch
    /\ max_experiments = 2 <=> Len(dataset) = 4
    /\ init.kind = "qk-means++" =>
          /\ Len(dataset) = 3
          /\ n_clusters = 3 => use_batch
    /\ init.kind # "qk-means++" => initial_center = "random"
    /\ init.kind = "array" => n_clusters = 2
    /\ init.kind # "random" => tol = <<1, 10000>>
    /\ flaky =>
          /\ Len(dataset) = 3
          /\ n_clusters = 2
          /\ tol = <<1, 10000>>
          /\ map_type = "angle"
          /\ init.kind = "random"
          /\ use_batch

Init ==
    /\ Constructed
    /\ n_clusters \in {2, 3}
    /\ init \in Inits
    /\ tol \in Tols
    /\ max_iter = MaxIter
    /\ map_type \in MapTypes
    /\ initial_center \in {"random", "far"}
    /\ max_experiments \in {2, 300}
    /\ dataset \in Datasets
    /\ use_batch \in BOOLEAN
    /\ flaky \in BOOLEAN
    /\ Tried
    /\ bpc = "off"
    /\ bX = <<>>
    /\ bClusters = <<>>
    /\ bMax = 0
    /\ bMapType = "angle"
    /\ bBackend = <<>>
    /\ batches = <<>>
    /\ jobs = <<>>
    /\ distance_list = [ndim |-> 1, rows |-> <<>>]
    /\ distances = Pending
    /\ direct = Pending

\* a call raised: the exception reaches the caller, the object stays as is
Abort(e) ==
    /\ pc' = "returned"
    /\ exc' = e

\* a backend whose job raises: job.result() of lines 92, 146 and 226-227
Failing == [p \in {<<<<>>, <<>>>>} |-> -1]

\* the distance matrix of one Assigning step, of the seeder or of predict:
\* batch_distances, or the per-pair list comprehension over
\* cluster_centers.iterrows(); a job that raises ends the computation
\* where the first job is submitted
estimate(rows, cc, backend, b) ==
    IF b
    THEN IF backend = Failing
            /\ batch_separate(rows, cc.rows, max_experiments).ok
         THEN Raise("JobError")
         ELSE batch_distances(rows, cc.rows, backend, map_type,
                              max_experiments)
    ELSE IF cc.kind = "DataFrame"
         THEN IF backend = Failing
              THEN Raise("JobError")
              ELSE unbatched_distances(rows, cc.rows, backend)
         \* an ndarray has no iterrows()
         ELSE Raise("AttributeError")

\* The backends tried for one estimate: when the call raises whatever the
\* outcomes are, one backend stands for all that answer.
JobBackendsOf(all, rows, cc, b) ==
    LET one == CHOOSE backend \in all : TRUE
    IN (IF estimate(rows, cc, one, b).ok THEN all ELSE {one})
          \cup (IF flaky THEN {Failing} ELSE {})

JobBackends(rows, cc, b) ==
    JobBackendsOf(Backends(rows, cc.rows), rows, cc, b)

\* the index sequences X.sample(n=k) can draw: k distinct rows, any order
Samples(n, k) ==
    {q \in [1..k -> 1..n] : \A a, b \in 1..k : a # b => q[a] # q[b]}

\* ------------------------------------------------------------ the seeder
\* n_local_trials = 2 + int(np.log(n_clusters)), for up to 7 clusters
n_local_trials(k) == 2 + (IF k < 3 THEN 0 ELSE 1)

\* stable_cumsum(closest_distances)
stable_cumsum(d) == [i \in 1..Len(d) |-> SumSeq(SubSeq(d, 1, i))]

\* np.searchsorted(cum, num/den): the first position whose entry is at
\* least the value, len(cum) if there is none
searchsorted(cum, num, den) ==
    IF \E i \in 1..Len(cum) : cum[i] * den >= num
    THEN (CHOOSE i \in 1..Len(cum) :
             /\ cum[i] * den >= num
             /\ \A h \in 1..(i - 1) : cum[h] * den < num) - 1
    ELSE Len(cum)

\* np.clip(candidate_ids, None, size - 1)
np_clip(i, high) == IF i > high THEN high ELSE i

\* The positions one trial can draw: random_sample() is r/Draws for some r
\* below Draws, scaled by current_pot.
CandidateIds(closest, pot) ==
    { np_clip(searchsorted(stable_cumsum(closest), r * pot, Draws),
              Len(closest) - 1) : r \in 0..(Draws - 1) }

\* np.empty((n_clusters, n_features)) and np.full(n_clusters, -1)
EmptyCenters(k, f) == [j \in 1..k |-> [h \in 1..f |-> 0]]
FullIndices(k) == [j \in 1..k |-> -1]

NoSeeding ==
    /\ centers' = <<>>
    /\ indices' = <<>>
    /\ closest_distances' = <<>>
    /\ current_pot' = 0
    /\ seed_c' = 0

\* a call raised: the exception reaches the caller and the locals are gone
NoLocals ==
    /\ iteration' = 0
    /\ finished' = FALSE
    /\ NoSeeding

\* fit(X, batch), lines 609-616: preprocessing and the initial centers
Fit(raw, b) ==
    /\ pc = "idle"
    /\ fits < MaxFits
    /\ fits' = fits + 1
    /\ last' = Call("fit", <<>>, b)
    /\ result' = NoResult
    /\ matrix' = <<>>
    /\ X_fit' = preprocess(raw, map_type)
    /\ batch' = b
    /\ finished' = FALSE
    /\ iteration' = 0
    /\ IF init.kind = "qk-means++"
       THEN /\ pc' = "seed_first"
            /\ exc' = ""
            /\ UNCHANGED cluster_centers_
       ELSE IF init.kind = "random"
       THEN IF n_clusters > Len(raw)
            THEN /\ Abort("ValueError")
                 /\ UNCHANGED cluster_centers_
            ELSE /\ \E q \in Samples(Len(raw), n_clusters) :
                      cluster_centers_' =
                          DataFrame([a \in 1..n_clusters |-> X_fit'[q[a]]])
                 /\ pc' = "loop"
                 /\ exc' = ""
       \* an array: neither test of lines 612-615 holds and no center is
       \* assigned; where numpy compares an array with a string element by
       \* element, the test of line 612 raises
       ELSE /\ \/ /\ pc' = "loop"
                  /\ exc' = ""
               \/ Abort("ValueError")
            /\ UNCHANGED cluster_centers_
    /\ UNCHANGED <<paramVars, sessionVars, labels_, n_iter_, seedVars,
                   batchVars>>
    /\ steps' = 0

\* qkmeans_plusplus, lines 484-500: the first center and its distances
SeedFirst ==
    /\ pc = "seed_first"
    /\ \E center_id \in 0..(Len(X_fit) - 1) :
       \E cs \in {DataFrame(<<X_fit[center_id + 1]>>)} :
       \E backend \in JobBackends(X_fit, cs, batch) :
       \E d \in {estimate(X_fit, cs, backend, batch)} :
         IF ~d.ok
         THEN /\ Abort(d.err)
              /\ NoLocals
         ELSE /\ centers' =
                    [EmptyCenters(n_clusters, Len(X_fit[1]))
                        EXCEPT ![1] = X_fit[center_id + 1]]
              /\ indices' = [FullIndices(n_clusters) EXCEPT ![1] = center_id]
              /\ closest_distances' = d.val[1]
              /\ current_pot' = SumSeq(d.val[1])
              /\ seed_c' = 1
              /\ pc' = IF 1 < n_clusters THEN "seed_next" ELSE "seeded"
              /\ UNCHANGED <<exc, iteration, finished>>
    /\ UNCHANGED <<paramVars, sessionVars, fittedVars, X_fit, batch, fits,
                   last, result, matrix, batchVars>>
    /\ steps' = steps + 1

\* lines 506-524, and again lines 533-551: the trial candidates, their
\* distances, and the candidate of least potential written to a slot
SeedPick(slot, next_pc, next_c) ==
    \E candidate_ids \in [1..n_local_trials(n_clusters) ->
                             CandidateIds(closest_distances, current_pot)] :
    \E cs \in {DataFrame([t \in 1..Len(candidate_ids) |->
                             X_fit[candidate_ids[t] + 1]])} :
    \E backend \in JobBackends(X_fit, cs, batch) :
    \E d \in {estimate(X_fit, cs, backend, batch)} :
      IF ~d.ok
      THEN /\ Abort(d.err)
           /\ NoLocals
      ELSE LET distance_to_candidates ==
                   [t \in 1..Len(candidate_ids) |->
                       [i \in 1..Len(X_fit) |->
                           Min(closest_distances[i], d.val[t][i])]]
               candidates_pot ==
                   [t \in 1..Len(candidate_ids) |->
                       SumSeq(distance_to_candidates[t])]
               best == np_argmin(candidates_pot) + 1
               best_candidate == candidate_ids[best]
           IN /\ current_pot' = candidates_pot[best]
              /\ closest_distances' = distance_to_candidates[best]
              /\ centers' =
                    [centers EXCEPT ![slot + 1] = X_fit[best_candidate + 1]]
              /\ indices' = [indices EXCEPT ![slot + 1] = best_candidate]
              /\ seed_c' = next_c
              /\ pc' = next_pc
              /\ UNCHANGED <<exc, iteration, finished>>

AfterCenter(c) == IF c + 1 < n_clusters THEN "seed_next" ELSE "seeded"

\* one pass of the loop over c, lines 504-524
SeedNext ==
    /\ pc = "seed_next"
    /\ IF seed_c = 1 /\ initial_center = "far"
       THEN SeedPick(seed_c, "seed_far", seed_c)
       ELSE SeedPick(seed_c, AfterCenter(seed_c), seed_c + 1)
    /\ UNCHANGED <<paramVars, sessionVars, fittedVars, X_fit, batch, fits,
                   last, result, matrix, batchVars>>
    /\ steps' = steps + 1

\* initial_center == 'far', lines 529-532: the distances to centers[1]
SeedFar ==
    /\ pc = "seed_far"
    /\ \E cs \in {DataFrame(<<centers[2]>>)} :
       \E backend \in JobBackendsOf(FarBackends(X_fit, cs.rows), X_fit, cs,
                                     batch) :
       \E d \in {estimate(X_fit, cs, backend, batch)} :
         IF ~d.ok
         THEN /\ Abort(d.err)
              /\ NoLocals
         ELSE /\ closest_distances' = d.val[1]
              /\ current_pot' = SumSeq(d.val[1])
              /\ pc' = "seed_far_pick"
              /\ UNCHANGED <<exc, iteration, finished, centers, indices,
                             seed_c>>
    /\ UNCHANGED <<paramVars, sessionVars, fittedVars, X_fit, batch, fits,
                   last, result, matrix, batchVars>>
    /\ steps' = steps + 1

\* initial_center == 'far', lines 533-551: centers[0] is chosen again
SeedFarPick ==
    /\ pc = "seed_far_pick"
    /\ SeedPick(0, AfterCenter(seed_c), seed_c + 1)
    /\ UNCHANGED <<paramVars, sessionVars, fittedVars, X_fit, batch, fits,
                   last, result, matrix, batchVars>>
    /\ steps' = steps + 1

\* lines 613-616: the seeder returned
FitSeeded ==
    /\ pc = "seeded"
    /\ cluster_centers_' = DataFrame(centers)
    /\ NoSeeding
    /\ pc' = "loop"
    /\ UNCHANGED <<paramVars, sessionVars, labels_, n_iter_, X_fit, batch,
                   iteration, finished, callVars, matrix, batchVars>>
    /\ steps' = steps + 1

\* new_centroids of one Updating step
update(rows, labels, mtype) ==
    IF mtype = "angle"
    THEN groupby_mean(rows, labels)
    ELSE DataFrame(preprocess(groupby_mean(rows, labels).rows, mtype))

\* one pass of fit's while loop, lines 617-632
FitIterate ==
    /\ pc = "loop"
    /\ loop_continues(finished, iteration, max_iter)
    /\ \E backend \in JobBackends(X_fit, cluster_centers_, batch) :
       \E dist \in {estimate(X_fit, cluster_centers_, backend, batch)} :
         IF ~dist.ok
         THEN /\ Abort(dist.err)
              /\ iteration' = 0
              /\ finished' = FALSE
              /\ matrix' = <<>>
              /\ UNCHANGED fittedVars
         ELSE \E labels \in {nearest(dist.val)} :
              \E new_centroids \in {update(X_fit, labels, map_type)} :
                 /\ matrix' = dist.val
                 /\ labels_' = labels
                 /\ finished' =
                      (finished \/
                         converged(diff_sum(new_centroids, cluster_centers_),
                                   tol))
                 /\ cluster_centers_' = new_centroids
                 /\ n_iter_' = n_iter_ + 1
                 /\ iteration' = iteration + 1
                 /\ UNCHANGED <<pc, exc>>
    /\ UNCHANGED <<paramVars, sessionVars, X_fit, batch, seedVars, fits,
                   last, result, batchVars>>
    /\ steps' = steps + 1

\* return self, line 633
FitReturn ==
    /\ pc = "loop"
    /\ ~loop_continues(finished, iteration, max_iter)
    /\ pc' = "returned"
    /\ result' = [kind |-> "self", labels |-> <<>>]
    /\ iteration' = 0
    /\ finished' = FALSE
    /\ matrix' = <<>>
    /\ UNCHANGED <<paramVars, sessionVars, fittedVars, X_fit, batch,
                   seedVars, fits, last, exc, batchVars>>
    /\ steps' = steps + 1

\* ------------------------------------------------------------ predict
\* X * sample_weight: every column times its weight
weighted(rows, w) ==
    [i \in 1..Len(rows) |-> [j \in 1..Len(rows[i]) |-> rows[i][j] * w[j]]]

labels_stored_by_predict(old, labels) == labels

\* self.labels_ once predict is over: line 654 binds the local name labels
labels_after_predict(old, labels) == old

\* predict(X, sample_weight, batch), lines 646-655
Predict(raw, sample_weight, b) ==
    /\ pc = "idle"
    /\ pc' = "returned"
    /\ last' = Call("predict", sample_weight, b)
    /\ \E X \in {preprocess(raw, map_type)} :
       \E rows \in {IF sample_weight = <<>> THEN X
                    ELSE weighted(X, sample_weight)} :
       \E backend \in JobBackends(rows, cluster_centers_, b) :
       \E dist \in {estimate(rows, cluster_centers_, backend, b)} :
         IF ~dist.ok
         THEN /\ exc' = dist.err
              /\ result' = NoResult
              /\ matrix' = <<>>
              /\ UNCHANGED labels_
         ELSE IF sample_weight # <<>> /\ b
         \* line 652 does not keep what batch_distances returns
         THEN /\ exc' = "UnboundLocalError"
              /\ result' = NoResult
              /\ matrix' = <<>>
              /\ UNCHANGED labels_
         ELSE /\ exc' = ""
              /\ matrix' = dist.val
              /\ result' = [kind |-> "labels", labels |-> nearest(dist.val)]
              /\ labels_' = labels_after_predict(labels_, nearest(dist.val))
    /\ UNCHANGED <<paramVars, sessionVars, cluster_centers_, n_iter_,
                   fitVars, seedVars, fits, batchVars>>
    /\ UNCHANGED steps

\* set_params(init=<array>), lines 676-678
SetParams ==
    /\ pc = "idle"
    /\ init.kind # "array"
    /\ init' = [kind |-> "array", centers |-> InitArray]
    /\ UNCHANGED <<n_clusters, tol, max_iter, map_type, initial_center,
                   max_experiments, sessionVars, fittedVars, pc, fitVars,
                   seedVars, callVars, matrix, batchVars>>
    /\ UNCHANGED steps

\* the caller has seen what the call returned or raised, and goes on
Continue ==
    /\ pc = "returned"
    /\ pc' = "idle"
    /\ last' = Call("none", <<>>, TRUE)
    /\ result' = NoResult
    /\ exc' = ""
    /\ matrix' = <<>>
    /\ UNCHANGED <<paramVars, sessionVars, fittedVars, fitVars, seedVars,
                   fits, batchVars>>
    /\ steps' = 0

FitStep ==
    \/ SeedFirst
    \/ SeedNext
    \/ SeedFar
    \/ SeedFarPick
    \/ FitSeeded
    \/ FitIterate
    \/ FitReturn

Next ==
    \/ Fit(dataset, use_batch)
    \/ FitStep
    \/ \E w \in Weights : Predict(dataset, w, use_batch)
    \/ SetParams
    \/ Continue

Spec == Init /\ [][Next]_vars

\* a step of the call in progress: each of them counts one more step
Advance == pc \notin {"idle", "returned"} /\ steps' = steps + 1

\* a call in progress goes on: every backend job returns
FairSpec == Spec /\ WF_steps(Advance)

\* ===================================================================
\* Properties of the estimator
\* ===================================================================

\* fit's loop has stopped and fit is about to return
AtReturn == pc = "loop" /\ ~(~finished /\ iteration < max_iter)

\* the signed sum of the coordinate differences, new centroid minus the
\* previous centroid of the same index label
CoordinateDifferences(new, old) ==
    LET common == {<<g, h>> \in (1..Len(new.index)) \X (1..Len(old.index)) :
                      new.index[g] = old.index[h]}
        delta(p) == SumSeq([j \in 1..Len(new.rows[p[1]]) |->
                               new.rows[p[1]][j] - old.rows[p[2]][j]])
        RECURSIVE Total(_)
        Total(S) == IF S = {} THEN 0
                    ELSE LET p == CHOOSE x \in S : TRUE
                         IN delta(p) + Total(S \ {p})
    IN Total(common)

TestPasses(new, old) ==
    Abs(CoordinateDifferences(new, old)) * tol[2] < tol[1] * Unit

C6_IterationsOfThisFit ==
    AtReturn => (n_iter_ = iteration /\ n_iter_ <= max_iter)

\* C7: after every Updating step, and when fit returns, cluster_centers_
\* holds exactly n_clusters centroids.
C7_CenterCount ==
    (pc = "loop" /\ iteration >= 1) =>
        Len(cluster_centers_.rows) = n_clusters

\* the stored centers are n_clusters centroids, and the batcher regroups a
\* matrix of this shape
Fitted ==
    /\ cluster_centers_.kind = "DataFrame"
    /\ Len(cluster_centers_.rows) = n_clusters
    /\ use_batch =>
          /\ n_clusters <= 2
          /\ Len(dataset) > n_clusters
          /\ (Len(dataset) % max_experiments = 0
                \/ max_experiments > Len(dataset))

\* C8: on a fitted estimator, predict with a per-feature weight vector
\* returns one label per input point, with batch=True and with batch=False.
C8_WeightedPredict ==
    (/\ pc = "returned"
     /\ last.name = "predict"
     /\ last.sample_weight # <<>>
     /\ Fitted) =>
        /\ exc = ""
        /\ result.kind = "labels"
        /\ Len(result.labels) = Len(dataset)
        /\ \A i \in 1..Len(dataset) :
              result.labels[i] \in 0..(n_clusters - 1)

\* C9: a predict call, returning or raising, leaves cluster_centers_,
\* labels_ and n_iter_ as they were.
C9_PredictFrame ==
    [][(pc = "idle" /\ pc' = "returned" /\ last'.name = "predict") =>
          /\ cluster_centers_' = cluster_centers_
          /\ labels_' = labels_
          /\ n_iter_' = n_iter_]_vars

\* predict returned labels, other than the stored ones, on a fitted estimator
C9_Witness ==
    /\ pc = "returned"
    /\ last.name = "predict"
    /\ result.kind = "labels"
    /\ n_iter_ >= 1
    /\ result.labels # labels_


\* C10: with init an array of n_clusters centers, the first Assigning step
\* of fit starts from exactly those centers.
C10_InitArrayUsed ==
    (pc = "loop" /\ iteration = 0 /\ init.kind = "array") =>
        cluster_centers_.rows = init.centers

\* C11: when the seeder returns, indices holds n_clusters pairwise distinct
\* row positions, each in 0..n_samples-1, under 'random' and under 'far'.
C11_DistinctIndices ==
    pc = "seeded" =>
        /\ Len(indices) = n_clusters
        /\ \A a \in 1..Len(indices) : indices[a] \in 0..(Len(X_fit) - 1)
        /\ \A a, b \in 1..Len(indices) : a # b => indices[a] # indices[b]

\* C12: a backend job that raises ends fit with the error at the caller, and
\* the estimator's first fit then shows no trace of the passes completed
\* before the failure: labels_ and n_iter_ are as the constructor left them.
C12_NoPartialState ==
    (pc = "returned" /\ last.name = "fit" /\ exc = "JobError" /\ fits = 1) =>
        /\ labels_ = <<>>
        /\ n_iter_ = 0

\* the first rows of a dataset
Prefix(rows, n) == SubSeq(rows, 1, n)

\* no more points than centers
TooFewPoints(rows, cc) == Len(rows) <= Len(cc.rows)

\* a batched Assigning step of fit on no more points than centers
RejectedInFit ==
    (/\ pc = "loop"
     /\ loop_continues(finished, iteration, max_iter)
     /\ batch
     /\ TooFewPoints(X_fit, cluster_centers_))
    => /\ pc' = "returned"
       /\ exc' = "NotImplementedError"
       /\ UNCHANGED fittedVars

\* a batched predict on no more points than centers
RejectedInPredict ==
    (/\ pc = "idle"
     /\ pc' = "returned"
     /\ last'.name = "predict"
     /\ last'.batch
     /\ TooFewPoints(dataset, cluster_centers_))
    => /\ exc' = "NotImplementedError"
       /\ result' = NoResult

\* batch_separate and batch_distances on the first n rows of the dataset
RejectedShapes ==
    \A n \in 0..Len(dataset) :
       LET rows == Prefix(preprocess(dataset, map_type), n)
       IN TooFewPoints(rows, cluster_centers_) =>
            /\ batch_separate(rows, cluster_centers_.rows, max_experiments)
                  = Raise("NotImplementedError")
            /\ \A backend \in Backends(rows, cluster_centers_.rows) :
                  batch_distances(rows, cluster_centers_.rows, backend,
                                  map_type, max_experiments)
                    = Raise("NotImplementedError")

\* C13: batch_separate on no more points than centers (as many included)
\* raises NotImplementedError and returns no batches, and so does
\* batch_distances; a batched Assigning step of fit and a batched predict on
\* such a shape end with that error at the caller, no label computed.
C13_ShapeRejected ==
    /\ []RejectedShapes
    /\ [][RejectedInFit /\ RejectedInPredict]_vars

\* a batched fit on as many points as clusters has ended with the error
C13_Witness ==
    /\ pc = "returned"
    /\ last.name = "fit"
    /\ last.batch
    /\ init.kind = "random"
    /\ Len(dataset) = n_clusters
    /\ Len(cluster_centers_.rows) = Len(dataset)
    /\ exc = "NotImplementedError"

\* the labels fit stored, or predict returned, from the distances in matrix
Assigned ==
    IF pc = "returned" /\ last.name = "predict" THEN result.labels ELSE labels_

\* an Assigning step of fit, or predict, has just computed its labels
AfterAssigning ==
    /\ matrix # <<>>
    /\ \/ pc = "loop"
       \/ pc = "returned" /\ last.name = "predict"

\* the centroid positions whose distance to point i is the column's least
Closest(dist, i) ==
    {j \in 0..(Len(dist) - 1) :
        \A h \in 0..(Len(dist) - 1) : dist[j + 1][i] <= dist[h + 1][i]}

\* C14: after every Assigning step of fit and after predict there is one
\* label per point, every label is a position 0..k-1 of the k centroids the
\* distances were taken to, and the label of point i is the lowest position
\* whose distance to point i is the least of column i.
C14_LowestNearest ==
    AfterAssigning =>
        /\ Len(Assigned) = Len(dataset)
        /\ \A i \in 1..Len(Assigned) :
              /\ Assigned[i] \in 0..(Len(matrix) - 1)
              /\ Assigned[i] \in Closest(matrix, i)
              /\ \A j \in Closest(matrix, i) : Assigned[i] <= j

\* fit has assigned a point that is equally near to two centroids
C14_Witness ==
    /\ AfterAssigning
    /\ pc = "loop"
    /\ \E i \in 1..Len(labels_) :
          /\ Len(matrix) >= 2
          /\ matrix[1][i] = matrix[2][i]
          /\ matrix[1][i] > 0
          /\ {0, 1} \subseteq Closest(matrix, i)
          /\ labels_[i] = 0

\* C15: the per-pair path computes every distance under the configured
\* scheme: what it holds for (point i, center j) is what distance gives when
\* called with that map_type, and is the value the batched path decodes from
\* the same outcomes under that map_type.
C15_ConfiguredScheme ==
    bpc = "done" =>
        /\ IsValue(direct)
        /\ \A j \in 1..Len(bClusters) : \A i \in 1..Len(bX) :
              /\ distance(bX[i], bClusters[j], bBackend, bMapType, FALSE)
                    = Ok(direct.val[j][i])
              /\ direct.val[j][i] = PairDecoded(bX[i], bClusters[j])

\* the row positions whose distance in d is the greatest
Farthest(d) == {i \in 0..(Len(d) - 1) : \A h \in 1..Len(d) : d[h] <= d[i + 1]}

\* the 'far' pass writes its choice to centers[0] and indices[0]
FarPicked == pc = "seed_far_pick" /\ pc' \in {"seed_next", "seeded"}

\* C16: under 'far', once the second center is selected, the first center
\* is replaced by the dataset point whose estimated distance from the second
\* center (closest_distances of lines 530-531) is the greatest, in centers[0]
\* and in indices[0].
C16_FarthestFirst ==
    [][FarPicked =>
          /\ indices'[1] \in Farthest(closest_distances)
          /\ centers'[1] = X_fit[indices'[1] + 1]]_vars

\* C17: under the angle scheme rows of more than 3 features are rejected:
\* batch_distance raises for every batch of such rows, and the per-pair
\* estimator raises too; neither returns distances, neither returns None.
C17_WideRejected ==
    (bMapType = "angle" /\ Len(bX[1]) > 3) =>
        /\ (bpc \in {"separated", "measured", "collected"}) =>
              \A b \in 1..Len(batches) :
                  ~batch_distance(batches[b], bBackend, bMapType).ok
        /\ (bpc = "done") => ~direct.ok

====
